---- MODULE Spec2Model ----
(***************************************************************************)
(* A model of the App component of frontend/src/App.js: the React state of *)
(* the component, the two effects (mount, debounced search), the fetch     *)
(* helpers with their three outcomes (2xx, non-2xx, rejected fetch) and    *)
(* the upload / delete handlers.                                           *)
(*                                                                         *)
(* Text that the code serialises (filter values, the query string) is a    *)
(* sequence of one-character strings; a displayed message is a sequence of *)
(* the pieces the code concatenates (<<>> is the empty string '').         *)
(***************************************************************************)
EXTENDS Naturals, Sequences, FiniteSets

VARIABLES
    mounted,            \* the effects of the first render have run
    files,              \* useState([])            App.js:5
    selectedFile,       \* useState(null)          App.js:6
    selectedImages,     \* useState([])            App.js:7
    description,        \* useState('')            App.js:8
    category,           \* useState('Other')       App.js:9
    categories,         \* useState(['Other'])     App.js:10
    uploading,          \* useState(false)         App.js:11
    stats,              \* useState({...})         App.js:12
    message,            \* useState('')            App.js:18
    searchTerm,         \* useState('')            App.js:22
    selectedCategory,   \* useState('All')         App.js:23
    selectedFileType,   \* useState('All')         App.js:24
    sortBy,             \* useState('upload_date') App.js:25
    sortOrder,          \* useState('desc')        App.js:26
    isSearching,        \* useState(false)         App.js:27
    timers,             \* pending setTimeout callbacks, each with the values its closure captured
    inflight,           \* fetch calls awaiting their response: request kind -> how many
    burst,              \* filter changes taken up by the latest debounce timer (counted up to 2)
    sent,               \* the HTTP requests put on the wire by the step just taken
    event               \* the step just taken: the code that ran and how its fetch ended

vars == <<mounted, files, selectedFile, selectedImages, description, category,
          categories, uploading, stats, message, searchTerm, selectedCategory,
          selectedFileType, sortBy, sortOrder, isSearching, timers, inflight, burst, sent, event>>

filterVars == <<searchTerm, selectedCategory, selectedFileType, sortBy, sortOrder>>
formVars   == <<selectedFile, selectedImages, description, category, uploading>>

(***************************************************************************)
(* Bounds of the model.                                                    *)
(***************************************************************************)
\* A user-triggered request is started only while fewer than this many are in flight.
MaxInFlight == 2

(***************************************************************************)
(* Text values.                                                            *)
(***************************************************************************)
Empty == <<>>
All == <<"A", "l", "l">>
Other == <<"O", "t", "h", "e", "r">>
SystemTools == <<"S", "y", "s", "t", "e", "m", " ", "T", "o", "o", "l", "s">>
AppZip == <<"a", "p", "p", "l", "i", "c", "a", "t", "i", "o", "n", "/", "z", "i", "p">>
OddTerm == <<"c", "+", "+", " ", "&", "=">>
upload_date == <<"u", "p", "l", "o", "a", "d", "_", "d", "a", "t", "e">>
original_name == <<"o", "r", "i", "g", "i", "n", "a", "l", "_", "n", "a", "m", "e">>
asc == <<"a", "s", "c">>
desc == <<"d", "e", "s", "c">>

\* What the user can type into the search box.
SearchTerms == {Empty, OddTerm}
\* The <option>s of the file-type select that the model offers.
FileTypeOptions == {All, AppZip}
\* The <option>s of the sort select that the model offers, as value.split('-') yields them.
SortOptions == {<<upload_date, desc>>, <<original_name, asc>>}

NoMessage == <<>>
Msg(s) == <<s>>

\* A File object is modelled by a one-element sequence holding its name; null by <<>>.
NoFile == <<>>
SetupExe == <<"setup.exe">>
Shot == <<"shot.png">>
SomeText == <<"d">>

(***************************************************************************)
(* URLSearchParams: append keeps the insertion order, and the template     *)
(* literal `${params}` calls toString, the application/x-www-form-         *)
(* urlencoded serialiser: name=value pairs joined by '&', a space written  *)
(* as '+', letters, digits and * - . _ written as they are, and every      *)
(* other character percent-encoded.                                        *)
(***************************************************************************)
Unreserved ==
    {"a", "b", "c", "d", "e", "f", "g", "h", "i", "j", "k", "l", "m", "n", "o", "p",
     "q", "r", "s", "t", "u", "v", "w", "x", "y", "z", "A", "B", "C", "D", "E", "F",
     "G", "H", "I", "J", "K", "L", "M", "N", "O", "P", "Q", "R", "S", "T", "U", "V",
     "W", "X", "Y", "Z", "0", "1", "2", "3", "4", "5", "6", "7", "8", "9", "*", "-",
     ".", "_"}

\* The characters other than the unreserved ones and the space that the model's texts use.
PercentCode ==
    [c \in {"/", "&", "=", "+", "%"} |->
        CASE c = "/" -> <<"%", "2", "F">>
          [] c = "&" -> <<"%", "2", "6">>
          [] c = "=" -> <<"%", "3", "D">>
          [] c = "+" -> <<"%", "2", "B">>
          [] c = "%" -> <<"%", "2", "5">>]

EncodeChar(c) ==
    IF c = " " THEN <<"+">>
    ELSE IF c \in Unreserved THEN <<c>>
    ELSE PercentCode[c]

RECURSIVE UrlEncode(_)
UrlEncode(s) == IF s = <<>> THEN <<>> ELSE EncodeChar(Head(s)) \o UrlEncode(Tail(s))

\* URLSearchParams.prototype.toString
RECURSIVE ParamsToString(_)
ParamsToString(params) ==
    IF params = <<>> THEN <<>>
    ELSE LET p == Head(params)
             one == UrlEncode(p[1]) \o <<"=">> \o UrlEncode(p[2])
         IN  IF Len(params) = 1 THEN one ELSE one \o <<"&">> \o ParamsToString(Tail(params))

P_search == <<"s", "e", "a", "r", "c", "h">>
P_category == <<"c", "a", "t", "e", "g", "o", "r", "y">>
P_file_type == <<"f", "i", "l", "e", "_", "t", "y", "p", "e">>
P_sort_by == <<"s", "o", "r", "t", "_", "b", "y">>
P_sort_order == <<"s", "o", "r", "t", "_", "o", "r", "d", "e", "r">>

\* A closure of one render: the filter and sort values the callbacks of that render see.
Closure(st, sc, sft, sb, so) ==
    [searchTerm |-> st, selectedCategory |-> sc, selectedFileType |-> sft,
     sortBy |-> sb, sortOrder |-> so]

CurrentClosure == Closure(searchTerm, selectedCategory, selectedFileType, sortBy, sortOrder)

\* BuildParams with the test of the category against 'All' left out.
BuildParamsNoAllCheck(c) ==
    (IF c.searchTerm # Empty THEN <<<<P_search, c.searchTerm>>>> ELSE <<>>)
    \o <<<<P_category, c.selectedCategory>>>>
    \o (IF c.selectedFileType # All THEN <<<<P_file_type, c.selectedFileType>>>> ELSE <<>>)
    \o <<<<P_sort_by, c.sortBy>>, <<P_sort_order, c.sortOrder>>>>

\* searchFiles, lines 82-87: the params of the search request, in append order.
BuildParams(c) ==
    (IF c.searchTerm # Empty THEN <<<<P_search, c.searchTerm>>>> ELSE <<>>)
    \o (IF c.selectedCategory # All THEN <<<<P_category, c.selectedCategory>>>> ELSE <<>>)
    \o (IF c.selectedFileType # All THEN <<<<P_file_type, c.selectedFileType>>>> ELSE <<>>)
    \o <<<<P_sort_by, c.sortBy>>, <<P_sort_order, c.sortOrder>>>>

(***************************************************************************)
(* HTTP requests as they go on the wire.                                   *)
(***************************************************************************)
\* path: the pieces the template literal joins; query: the text after '?'; body: the
\* FormData entries, each <<name, value>>.
Http(method, path, query, body) ==
    [method |-> method, path |-> path, query |-> query, body |-> body]

GetCategories == Http("GET", <<"/api/categories">>, <<>>, <<>>)
GetFiles == Http("GET", <<"/api/files">>, <<>>, <<>>)
GetStats == Http("GET", <<"/api/stats">>, <<>>, <<>>)
GetSearch(c) == Http("GET", <<"/api/files/search">>, ParamsToString(BuildParams(c)), <<>>)

(***************************************************************************)
(* What the backend can answer.  A fetch ends in one of three ways: a 2xx  *)
(* response, a response with another status, or a rejected promise (a      *)
(* network error, or a body that does not parse).                          *)
(***************************************************************************)
Outcomes == {"ok", "non2xx", "network"}

File1 == [id |-> "1", download_count |-> 0]
FileListPayloads == {<<>>, <<File1>>}

\* The fields of stats that the page reads and the model's payloads carry.
InitialStats ==
    [total_files |-> 0, total_downloads |-> 0, category_stats |-> <<>>]
StatsPayloads ==
    {[total_files |-> 1, total_downloads |-> 1,
      category_stats |-> <<[id |-> SystemTools, count |-> 1]>>]}

CategoryPayloads == {<<SystemTools, Other>>}

(***************************************************************************)
(* Fetch calls in flight.  A call is told apart by what it asks for and by *)
(* the code that started it; `stale` marks a query of the debounce effect  *)
(* after which the effect has started a newer query.  Responses may come   *)
(* back in any order, so the calls form a bag: request -> count.           *)
(***************************************************************************)
Req(kind, origin, stale) == [kind |-> kind, origin |-> origin, stale |-> stale]

Requests ==
    {Req("categories", "mount", FALSE)}
    \cup {Req("stats", o, FALSE) : o \in {"mount", "upload", "delete", "download"}}
    \cup {Req("files", o, FALSE) : o \in {"mount", "upload", "delete"}}
    \cup {Req(k, "debounce", st) : k \in {"files", "search"}, st \in BOOLEAN}
    \cup {Req(k, "user", FALSE) : k \in {"upload", "delete", "download"}}

RECURSIVE BagSum(_, _)
BagSum(b, S) ==
    IF S = {} THEN 0
    ELSE LET r == CHOOSE x \in S : TRUE IN b[r] + BagSum(b, S \ {r})

InFlightCount == BagSum(inflight, Requests)

IssueIn(b, r) == [b EXCEPT ![r] = @ + 1]
ArriveIn(b, r) == [b EXCEPT ![r] = @ - 1]

\* The queries of the debounce effect that are in flight are superseded by a newer one.
MarkSuperseded(b) ==
    [r \in Requests |->
        IF r.origin # "debounce" THEN b[r]
        ELSE IF r.stale THEN b[r] + b[Req(r.kind, r.origin, FALSE)]
        ELSE 0]

IssueQuery(b, kind) == IssueIn(MarkSuperseded(b), Req(kind, "debounce", FALSE))

Ev(op, outcome) == [op |-> op, outcome |-> outcome]

Init ==
    /\ mounted = FALSE
    /\ files = <<>>
    /\ selectedFile = NoFile
    /\ selectedImages = <<>>
    /\ description = Empty
    /\ category = Other
    /\ categories = <<Other>>
    /\ uploading = FALSE
    /\ stats = InitialStats
    /\ message = NoMessage
    /\ searchTerm = Empty
    /\ selectedCategory = All
    /\ selectedFileType = All
    /\ sortBy = upload_date
    /\ sortOrder = desc
    /\ isSearching = FALSE
    /\ timers = {}
    /\ inflight = [r \in Requests |-> 0]
    /\ burst = 0
    /\ sent = <<>>
    /\ event = Ev("construct", "")

(***************************************************************************)
(* The effects of the first render, lines 35-39 and 42-52: the three       *)
(* fetches start, and the debounce effect sets its first timer.            *)
(***************************************************************************)
\* The mount effect without its fetchFiles() call (line 37).
MountSkipsFiles ==
    /\ ~mounted
    /\ mounted' = TRUE
    /\ inflight' = IssueIn(IssueIn(inflight, Req("categories", "mount", FALSE)),
                           Req("stats", "mount", FALSE))
    /\ timers' = {CurrentClosure}
    /\ event' = Ev("mount", "")
    /\ sent' = <<GetCategories, GetStats>>
    /\ UNCHANGED <<burst, files, stats, categories, message, isSearching, filterVars, formVars>>

Mount ==
    /\ ~mounted
    /\ mounted' = TRUE
    /\ inflight' = IssueIn(IssueIn(IssueIn(inflight, Req("categories", "mount", FALSE)),
                                   Req("files", "mount", FALSE)),
                           Req("stats", "mount", FALSE))
    /\ timers' = {CurrentClosure}
    /\ event' = Ev("mount", "")
    /\ sent' = <<GetCategories, GetFiles, GetStats>>
    /\ UNCHANGED <<burst, files, stats, categories, message, isSearching, filterVars, formVars>>

(***************************************************************************)
(* The debounce effect, lines 42-52.  A render whose dependencies differ   *)
(* from the previous render's runs the cleanup of the previous effect      *)
(* (clearTimeout of the timer that effect set) and sets a new timer whose  *)
(* callback sees the new values.  A setter called with the value the state *)
(* already has causes no render.                                           *)
(***************************************************************************)
\* DebounceEffect without the cleanup: the timer of the previous effect stays pending.
DebounceEffectNoCleanup(old, new) ==
    IF new = old THEN timers ELSE timers \cup {new}

DebounceEffect(old, new) ==
    IF new = old THEN timers ELSE (timers \ {old}) \cup {new}

ChangeFilters(new) ==
    /\ mounted
    /\ searchTerm' = new.searchTerm
    /\ selectedCategory' = new.selectedCategory
    /\ selectedFileType' = new.selectedFileType
    /\ sortBy' = new.sortBy
    /\ sortOrder' = new.sortOrder
    /\ timers' = DebounceEffect(CurrentClosure, new)
    /\ burst' = IF new = CurrentClosure THEN burst
                ELSE IF timers = {} THEN 1
                ELSE IF burst < 2 THEN burst + 1 ELSE burst
    /\ event' = Ev("input", "")
    /\ sent' = <<>>
    /\ UNCHANGED <<mounted, files, stats, categories, message, isSearching, inflight, formVars>>

\* line 623
setSearchTerm(v) == ChangeFilters([CurrentClosure EXCEPT !.searchTerm = v])

\* The values the category controls can hand to setSelectedCategory: lines 637-643, 453, 720.
CategoryChoices ==
    {All} \cup {categories[i] : i \in 1..Len(categories)}
          \cup {stats.category_stats[i].id : i \in 1..Len(stats.category_stats)}

setSelectedCategory(v) == ChangeFilters([CurrentClosure EXCEPT !.selectedCategory = v])

\* line 655
setSelectedFileType(v) == ChangeFilters([CurrentClosure EXCEPT !.selectedFileType = v])

\* lines 674-678: both setters are called in one event, so one render follows.
setSort(field, order) ==
    ChangeFilters([CurrentClosure EXCEPT !.sortBy = field, !.sortOrder = order])

\* lines 237-243
clearFilters == ChangeFilters(Closure(Empty, All, All, upload_date, desc))

(***************************************************************************)
(* The timer callback, lines 43-49, with fetchFiles (66-68) or searchFiles *)
(* (79-89) up to its await.                                                *)
(***************************************************************************)
\* HasFilter looking at the search text alone.
HasFilterSearchOnly(c) == c.searchTerm # Empty

\* HasFilter counting a sort other than the initial one as a filter.
HasFilterOrSort(c) ==
    \/ c.searchTerm # Empty \/ c.selectedCategory # All \/ c.selectedFileType # All
    \/ c.sortBy # upload_date \/ c.sortOrder # desc

\* line 44
HasFilter(c) ==
    c.searchTerm # Empty \/ c.selectedCategory # All \/ c.selectedFileType # All

DebounceTimerFires(t) ==
    /\ mounted
    /\ t \in timers
    /\ InFlightCount < MaxInFlight
    /\ timers' = timers \ {t}
    /\ event' = Ev("timer", "")
    /\ IF HasFilter(t)
       THEN /\ isSearching' = TRUE
            /\ inflight' = IssueQuery(inflight, "search")
            /\ sent' = <<GetSearch(t)>>
       ELSE /\ isSearching' = isSearching
            /\ inflight' = IssueQuery(inflight, "files")
            /\ sent' = <<GetFiles>>
    /\ UNCHANGED <<burst, mounted, files, stats, categories, message, filterVars, formVars>>

(***************************************************************************)
(* The rest of the fetch helpers: what runs when the response arrives.     *)
(***************************************************************************)
\* CategoriesAfterFetch emptying the list when the fetch fails.
CategoriesAfterFetchCleared(outcome, data) == IF outcome = "ok" THEN data ELSE <<>>

\* lines 57-60: setCategories(data.categories) only under response.ok
CategoriesAfterFetch(outcome, data) == IF outcome = "ok" THEN data ELSE categories

\* fetchCategories, lines 57-63: the catch block only logs
fetchCategoriesResponse(outcome, data) ==
    LET r == Req("categories", "mount", FALSE) IN
    /\ inflight[r] > 0
    /\ inflight' = ArriveIn(inflight, r)
    /\ categories' = CategoriesAfterFetch(outcome, data)
    /\ event' = Ev("fetchCategoriesResponse", outcome)
    /\ sent' = <<>>
    /\ UNCHANGED <<burst, mounted, files, stats, message, isSearching, timers, filterVars, formVars>>

\* FilesAfterFetch emptying the list when the fetch fails.
FilesAfterFetchCleared(outcome, data) == IF outcome = "ok" THEN data ELSE <<>>

\* FilesAfterFetch taking a list only while none is on display.
FilesAfterFetchFirstWins(outcome, data) ==
    IF outcome = "ok" /\ files = <<>> THEN data ELSE files

\* lines 69-72 and 90-93: setFiles(data) only under response.ok
FilesAfterFetch(outcome, data) == IF outcome = "ok" THEN data ELSE files

\* lines 73-76: only the catch block sets the message
MessageAfterFetchFiles(outcome) ==
    IF outcome = "network" THEN Msg("Error loading files") ELSE message

\* lines 94-97
MessageAfterSearchFiles(outcome) ==
    IF outcome = "network" THEN Msg("Error searching files") ELSE message

\* fetchFiles, lines 69-76.  handleDelete awaits it and then calls fetchStats (226-227).
fetchFilesResponse(r, outcome, data) ==
    /\ r \in Requests
    /\ r.kind = "files"
    /\ inflight[r] > 0
    /\ files' = FilesAfterFetch(outcome, data)
    /\ message' = MessageAfterFetchFiles(outcome)
    /\ event' = Ev("fetchFilesResponse", outcome)
    /\ IF r.origin = "delete"
       THEN /\ inflight' = IssueIn(ArriveIn(inflight, r), Req("stats", "delete", FALSE))
            /\ sent' = <<GetStats>>
       ELSE /\ inflight' = ArriveIn(inflight, r)
            /\ sent' = <<>>
    /\ UNCHANGED <<burst, mounted, stats, categories, isSearching, timers, filterVars, formVars>>

\* searchFiles, lines 90-99
searchFilesResponse(r, outcome, data) ==
    /\ r \in Requests
    /\ r.kind = "search"
    /\ inflight[r] > 0
    /\ inflight' = ArriveIn(inflight, r)
    /\ files' = FilesAfterFetch(outcome, data)
    /\ message' = MessageAfterSearchFiles(outcome)
    /\ isSearching' = FALSE
    /\ event' = Ev("searchFilesResponse", outcome)
    /\ sent' = <<>>
    /\ UNCHANGED <<burst, mounted, stats, categories, timers, filterVars, formVars>>

\* lines 105-108: setStats(data) only under response.ok
StatsAfterFetch(outcome, data) == IF outcome = "ok" THEN data ELSE stats

\* fetchStats calling itself again from its catch block and its non-2xx path.
fetchStatsResponseRetry(r, outcome, data) ==
    /\ r \in Requests
    /\ r.kind = "stats"
    /\ inflight[r] > 0
    /\ inflight' = IF outcome = "ok" THEN ArriveIn(inflight, r) ELSE inflight
    /\ stats' = StatsAfterFetch(outcome, data)
    /\ event' = Ev("fetchStatsResponse", outcome)
    /\ sent' = IF outcome = "ok" THEN <<>> ELSE <<GetStats>>
    /\ UNCHANGED <<burst, mounted, files, categories, message, isSearching, timers, filterVars, formVars>>

\* fetchStats, lines 105-111
fetchStatsResponse(r, outcome, data) ==
    /\ r \in Requests
    /\ r.kind = "stats"
    /\ inflight[r] > 0
    /\ inflight' = ArriveIn(inflight, r)
    /\ stats' = StatsAfterFetch(outcome, data)
    /\ event' = Ev("fetchStatsResponse", outcome)
    /\ sent' = <<>>
    /\ UNCHANGED <<burst, mounted, files, categories, message, isSearching, timers, filterVars, formVars>>

(***************************************************************************)
(* The upload form, lines 114-128, 507 and 549.                            *)
(***************************************************************************)
\* line 122
MaxImages == 5

\* n screenshots picked in the file dialog
Images(n) == [i \in 1..n |-> Shot]

\* What the dialogs can hand over: no file or one file; no images, the most allowed, one more.
FileSelections == {NoFile, SetupExe}
ImageSelections == {Images(n) : n \in {0, MaxImages, MaxImages + 1}}
Descriptions == {Empty, SomeText}

\* lines 114-118: files[0] of an emptied selection is undefined
handleFileSelect(file) ==
    /\ mounted
    /\ selectedFile' = file
    /\ message' = NoMessage
    /\ sent' = <<>>
    /\ event' = Ev("input", "")
    /\ UNCHANGED <<burst, mounted, files, stats, categories, isSearching, timers, inflight,
                   filterVars, selectedImages, description, category, uploading>>

\* handleImageSelect without the test of lines 122-125.
handleImageSelectNoLimit(imgs) ==
    /\ mounted
    /\ selectedImages' = imgs
    /\ message' = NoMessage
    /\ sent' = <<>>
    /\ event' = Ev("input", "")
    /\ UNCHANGED <<burst, mounted, files, stats, categories, isSearching, timers, inflight,
                   filterVars, selectedFile, description, category, uploading>>

\* handleImageSelect dropping the accepted images when it turns a selection down.
handleImageSelectClears(imgs) ==
    /\ mounted
    /\ IF Len(imgs) > MaxImages
       THEN /\ message' = Msg("Maximum 5 images allowed")
            /\ selectedImages' = <<>>
       ELSE /\ selectedImages' = imgs
            /\ message' = NoMessage
    /\ sent' = <<>>
    /\ event' = IF Len(imgs) > MaxImages THEN Ev("handleImageSelect", "rejected")
                 ELSE Ev("input", "")
    /\ UNCHANGED <<burst, mounted, files, stats, categories, isSearching, timers, inflight,
                   filterVars, selectedFile, description, category, uploading>>

\* lines 120-128
handleImageSelect(imgs) ==
    /\ mounted
    /\ IF Len(imgs) > MaxImages
       THEN /\ message' = Msg("Maximum 5 images allowed")
            /\ selectedImages' = selectedImages
       ELSE /\ selectedImages' = imgs
            /\ message' = NoMessage
    /\ sent' = <<>>
    /\ event' = IF Len(imgs) > MaxImages THEN Ev("handleImageSelect", "rejected")
                 ELSE Ev("input", "")
    /\ UNCHANGED <<burst, mounted, files, stats, categories, isSearching, timers, inflight,
                   filterVars, selectedFile, description, category, uploading>>

\* line 549
setDescription(v) ==
    /\ mounted
    /\ description' = v
    /\ sent' = <<>>
    /\ event' = Ev("input", "")
    /\ UNCHANGED <<burst, mounted, files, stats, categories, message, isSearching, timers, inflight,
                   filterVars, selectedFile, selectedImages, category, uploading>>

\* lines 506-513: the options are the entries of categories
setCategory(v) ==
    /\ mounted
    /\ category' = v
    /\ sent' = <<>>
    /\ event' = Ev("input", "")
    /\ UNCHANGED <<burst, mounted, files, stats, categories, message, isSearching, timers, inflight,
                   filterVars, selectedFile, selectedImages, description, uploading>>

(***************************************************************************)
(* handleUpload, lines 130-178.                                            *)
(***************************************************************************)
RECURSIVE ImageEntries(_)
ImageEntries(imgs) ==
    IF imgs = <<>> THEN <<>> ELSE <<<<"images", Head(imgs)>>>> \o ImageEntries(Tail(imgs))

\* lines 139-149: the FormData of the upload
UploadForm ==
    <<<<"file", selectedFile>>>>
    \o (IF description # Empty THEN <<<<"description", description>>>> ELSE <<>>)
    \o <<<<"category", category>>>>
    \o ImageEntries(selectedImages)

PostUpload == Http("POST", <<"/api/files/upload">>, <<>>, UploadForm)

\* handleUpload without the test of lines 131-134.
handleUploadNoFileCheck ==
    /\ mounted
    /\ InFlightCount < MaxInFlight
    /\ uploading' = TRUE
    /\ message' = NoMessage
    /\ inflight' = IssueIn(inflight, Req("upload", "user", FALSE))
    /\ sent' = <<PostUpload>>
    /\ event' = Ev("handleUpload", "started")
    /\ UNCHANGED <<selectedFile, selectedImages, description, category>>
    /\ UNCHANGED <<burst, mounted, files, stats, categories, isSearching, timers, filterVars>>

\* lines 130-155: up to the await of the fetch
handleUpload ==
    /\ mounted
    /\ IF selectedFile = NoFile
       THEN /\ message' = Msg("Please select a file first")
            /\ sent' = <<>>
            /\ UNCHANGED <<uploading, inflight>>
       ELSE /\ InFlightCount < MaxInFlight
            /\ uploading' = TRUE
            /\ message' = NoMessage
            /\ inflight' = IssueIn(inflight, Req("upload", "user", FALSE))
            /\ sent' = <<PostUpload>>
    /\ event' = Ev("handleUpload", IF selectedFile = NoFile THEN "rejected" ELSE "started")
    /\ UNCHANGED <<selectedFile, selectedImages, description, category>>
    /\ UNCHANGED <<burst, mounted, files, stats, categories, isSearching, timers, filterVars>>

\* The Upload button disabled only while no file is selected.
UploadButtonIgnoresUploading == selectedFile # NoFile

\* line 559: disabled={uploading || !selectedFile}
UploadButtonEnabled == ~uploading /\ selectedFile # NoFile

clickUpload == UploadButtonEnabled /\ handleUpload

\* result.detail of a rejected upload
UploadDetails == {"File type not allowed"}

\* uploadResponse without the form reset and the two refreshes of lines 161-168.
uploadResponseNoRefresh(outcome, detail) ==
    /\ inflight[Req("upload", "user", FALSE)] > 0
    /\ inflight' = ArriveIn(inflight, Req("upload", "user", FALSE))
    /\ sent' = <<>>
    /\ message' = IF outcome = "ok" THEN Msg("File uploaded successfully!")
                  ELSE Msg("Upload failed: Network error")
    /\ UNCHANGED <<selectedFile, selectedImages, description, category>>
    /\ uploading' = FALSE
    /\ event' = Ev("uploadResponse", outcome)
    /\ UNCHANGED <<burst, mounted, files, stats, categories, isSearching, timers, filterVars>>

\* uploadResponse whose success branch leaves the form as it is (lines 161-164 left out).
uploadResponseKeepsForm(outcome, detail) ==
    /\ inflight[Req("upload", "user", FALSE)] > 0
    /\ CASE outcome = "ok" ->
              /\ message' = Msg("File uploaded successfully!")
              /\ inflight' = IssueIn(IssueIn(ArriveIn(inflight, Req("upload", "user", FALSE)),
                                             Req("files", "upload", FALSE)),
                                     Req("stats", "upload", FALSE))
              /\ sent' = <<GetFiles, GetStats>>
         [] outcome = "non2xx" ->
              /\ message' = <<"Upload failed: ", detail>>
              /\ inflight' = ArriveIn(inflight, Req("upload", "user", FALSE))
              /\ sent' = <<>>
         [] outcome = "network" ->
              /\ message' = Msg("Upload failed: Network error")
              /\ inflight' = ArriveIn(inflight, Req("upload", "user", FALSE))
              /\ sent' = <<>>
    /\ UNCHANGED <<selectedFile, selectedImages, description, category>>
    /\ uploading' = FALSE
    /\ event' = Ev("uploadResponse", outcome)
    /\ UNCHANGED <<burst, mounted, files, stats, categories, isSearching, timers, filterVars>>

\* uploadResponse that resets the form after a failed upload as well.
uploadResponseClearsOnFailure(outcome, detail) ==
    /\ inflight[Req("upload", "user", FALSE)] > 0
    /\ CASE outcome = "ok" ->
              /\ message' = Msg("File uploaded successfully!")
              /\ inflight' = IssueIn(IssueIn(ArriveIn(inflight, Req("upload", "user", FALSE)),
                                             Req("files", "upload", FALSE)),
                                     Req("stats", "upload", FALSE))
              /\ sent' = <<GetFiles, GetStats>>
         [] outcome = "non2xx" ->
              /\ message' = <<"Upload failed: ", detail>>
              /\ inflight' = ArriveIn(inflight, Req("upload", "user", FALSE))
              /\ sent' = <<>>
         [] outcome = "network" ->
              /\ message' = Msg("Upload failed: Network error")
              /\ inflight' = ArriveIn(inflight, Req("upload", "user", FALSE))
              /\ sent' = <<>>
    /\ selectedFile' = NoFile
    /\ selectedImages' = <<>>
    /\ description' = Empty
    /\ category' = Other
    /\ uploading' = FALSE
    /\ event' = Ev("uploadResponse", outcome)
    /\ UNCHANGED <<burst, mounted, files, stats, categories, isSearching, timers, filterVars>>

\* uploadResponse without the finally block of lines 175-177 on the failure paths.
uploadResponseNoFinally(outcome, detail) ==
    /\ inflight[Req("upload", "user", FALSE)] > 0
    /\ CASE outcome = "ok" ->
              /\ message' = Msg("File uploaded successfully!")
              /\ selectedFile' = NoFile
              /\ selectedImages' = <<>>
              /\ description' = Empty
              /\ category' = Other
              /\ inflight' = IssueIn(IssueIn(ArriveIn(inflight, Req("upload", "user", FALSE)),
                                             Req("files", "upload", FALSE)),
                                     Req("stats", "upload", FALSE))
              /\ sent' = <<GetFiles, GetStats>>
         [] outcome = "non2xx" ->
              /\ message' = <<"Upload failed: ", detail>>
              /\ inflight' = ArriveIn(inflight, Req("upload", "user", FALSE))
              /\ sent' = <<>>
              /\ UNCHANGED <<selectedFile, selectedImages, description, category>>
         [] outcome = "network" ->
              /\ message' = Msg("Upload failed: Network error")
              /\ inflight' = ArriveIn(inflight, Req("upload", "user", FALSE))
              /\ sent' = <<>>
              /\ UNCHANGED <<selectedFile, selectedImages, description, category>>
    /\ uploading' = IF outcome = "ok" THEN FALSE ELSE uploading
    /\ event' = Ev("uploadResponse", outcome)
    /\ UNCHANGED <<burst, mounted, files, stats, categories, isSearching, timers, filterVars>>

\* uploadResponse refreshing the list with a search for the filters in force.
uploadResponseRefreshFiltered(outcome, detail) ==
    /\ inflight[Req("upload", "user", FALSE)] > 0
    /\ CASE outcome = "ok" ->
              /\ message' = Msg("File uploaded successfully!")
              /\ selectedFile' = NoFile
              /\ selectedImages' = <<>>
              /\ description' = Empty
              /\ category' = Other
              /\ inflight' = IssueIn(IssueIn(ArriveIn(inflight, Req("upload", "user", FALSE)),
                                             Req("files", "upload", FALSE)),
                                     Req("stats", "upload", FALSE))
              /\ sent' = <<IF HasFilter(CurrentClosure) THEN GetSearch(CurrentClosure)
                           ELSE GetFiles, GetStats>>
         [] outcome = "non2xx" ->
              /\ message' = <<"Upload failed: ", detail>>
              /\ inflight' = ArriveIn(inflight, Req("upload", "user", FALSE))
              /\ sent' = <<>>
              /\ UNCHANGED <<selectedFile, selectedImages, description, category>>
         [] outcome = "network" ->
              /\ message' = Msg("Upload failed: Network error")
              /\ inflight' = ArriveIn(inflight, Req("upload", "user", FALSE))
              /\ sent' = <<>>
              /\ UNCHANGED <<selectedFile, selectedImages, description, category>>
    /\ uploading' = FALSE
    /\ event' = Ev("uploadResponse", outcome)
    /\ UNCHANGED <<burst, mounted, files, stats, categories, isSearching, timers, filterVars>>

\* lines 157-177: after the await
uploadResponse(outcome, detail) ==
    /\ inflight[Req("upload", "user", FALSE)] > 0
    /\ CASE outcome = "ok" ->
              /\ message' = Msg("File uploaded successfully!")
              /\ selectedFile' = NoFile
              /\ selectedImages' = <<>>
              /\ description' = Empty
              /\ category' = Other
              /\ inflight' = IssueIn(IssueIn(ArriveIn(inflight, Req("upload", "user", FALSE)),
                                             Req("files", "upload", FALSE)),
                                     Req("stats", "upload", FALSE))
              /\ sent' = <<GetFiles, GetStats>>
         [] outcome = "non2xx" ->
              /\ message' = <<"Upload failed: ", detail>>
              /\ inflight' = ArriveIn(inflight, Req("upload", "user", FALSE))
              /\ sent' = <<>>
              /\ UNCHANGED <<selectedFile, selectedImages, description, category>>
         [] outcome = "network" ->
              /\ message' = Msg("Upload failed: Network error")
              /\ inflight' = ArriveIn(inflight, Req("upload", "user", FALSE))
              /\ sent' = <<>>
              /\ UNCHANGED <<selectedFile, selectedImages, description, category>>
    /\ uploading' = FALSE
    /\ event' = Ev("uploadResponse", outcome)
    /\ UNCHANGED <<burst, mounted, files, stats, categories, isSearching, timers, filterVars>>

(***************************************************************************)
(* handleDelete, lines 205-235.  A Delete button exists for each file of   *)
(* the displayed list; window.confirm returns the user's answer.           *)
(***************************************************************************)
DisplayedIds == {files[i].id : i \in 1..Len(files)}

DeleteFile(fileId) == Http("DELETE", <<"/api/files/", fileId>>, <<>>, <<>>)

\* handleDelete without the window.confirm test of lines 206-208.
handleDeleteNoConfirm(fileId, confirmed) ==
    /\ mounted
    /\ fileId \in DisplayedIds
    /\ InFlightCount < MaxInFlight
    /\ inflight' = IssueIn(inflight, Req("delete", "user", FALSE))
    /\ sent' = <<DeleteFile(fileId)>>
    /\ event' = Ev("handleDelete", IF confirmed THEN "confirmed" ELSE "declined")
    /\ UNCHANGED <<burst, mounted, files, stats, categories, message, isSearching, timers,
                   filterVars, formVars>>

\* lines 205-217
handleDelete(fileId, confirmed) ==
    /\ mounted
    /\ fileId \in DisplayedIds
    /\ IF ~confirmed
       THEN /\ sent' = <<>>
            /\ UNCHANGED inflight
       ELSE /\ InFlightCount < MaxInFlight
            /\ inflight' = IssueIn(inflight, Req("delete", "user", FALSE))
            /\ sent' = <<DeleteFile(fileId)>>
    /\ event' = Ev("handleDelete", IF confirmed THEN "confirmed" ELSE "declined")
    /\ UNCHANGED <<burst, mounted, files, stats, categories, message, isSearching, timers,
                   filterVars, formVars>>

\* The JSON body of the DELETE response: success, and message ("" when it has none);
\* for a rejected fetch, message is error.message.
DeleteResults ==
    [success : BOOLEAN, message : {"", "File not found"}]

\* DeleteSucceeded looking at the status alone.
DeleteSucceededOkOnly(outcome, result) == outcome = "ok"

\* line 223
DeleteSucceeded(outcome, result) == outcome = "ok" /\ result.success

\* deleteResponse starting the list refresh and the stats refresh together, without the
\* awaits of lines 226-227.
deleteResponseBothAtOnce(outcome, result) ==
    /\ inflight[Req("delete", "user", FALSE)] > 0
    /\ IF outcome = "network"
       THEN /\ message' = <<"Delete failed: ", result.message>>
            /\ inflight' = ArriveIn(inflight, Req("delete", "user", FALSE))
            /\ sent' = <<>>
       ELSE IF DeleteSucceeded(outcome, result)
       THEN /\ message' = Msg("File deleted successfully")
            /\ inflight' = IssueIn(IssueIn(ArriveIn(inflight, Req("delete", "user", FALSE)),
                                           Req("files", "delete", FALSE)),
                                   Req("stats", "delete", FALSE))
            /\ sent' = <<GetFiles, GetStats>>
       ELSE /\ message' = <<"Delete failed: ",
                            IF result.message # "" THEN result.message ELSE "Unknown error">>
            /\ inflight' = ArriveIn(inflight, Req("delete", "user", FALSE))
            /\ sent' = <<>>
    /\ event' = Ev("deleteResponse", IF DeleteSucceeded(outcome, result) THEN "ok"
                                      ELSE IF outcome = "ok" THEN "refused" ELSE outcome)
    /\ UNCHANGED <<burst, mounted, files, stats, categories, isSearching, timers, filterVars, formVars>>

\* lines 219-234: after the awaits of the fetch and of response.json()
deleteResponse(outcome, result) ==
    /\ inflight[Req("delete", "user", FALSE)] > 0
    /\ IF outcome = "network"
       THEN /\ message' = <<"Delete failed: ", result.message>>
            /\ inflight' = ArriveIn(inflight, Req("delete", "user", FALSE))
            /\ sent' = <<>>
       ELSE IF DeleteSucceeded(outcome, result)
       THEN /\ message' = Msg("File deleted successfully")
            /\ inflight' = IssueIn(ArriveIn(inflight, Req("delete", "user", FALSE)),
                                   Req("files", "delete", FALSE))
            /\ sent' = <<GetFiles>>
       ELSE /\ message' = <<"Delete failed: ",
                            IF result.message # "" THEN result.message ELSE "Unknown error">>
            /\ inflight' = ArriveIn(inflight, Req("delete", "user", FALSE))
            /\ sent' = <<>>
    /\ event' = Ev("deleteResponse", IF DeleteSucceeded(outcome, result) THEN "ok"
                                      ELSE IF outcome = "ok" THEN "refused" ELSE outcome)
    /\ UNCHANGED <<burst, mounted, files, stats, categories, isSearching, timers, filterVars, formVars>>

(***************************************************************************)
(* handleDownload, lines 180-203.  A Download button exists for each file  *)
(* of the displayed list.  The anchor element that saves the blob is added *)
(* to the document and removed again in the same step.                     *)
(***************************************************************************)
DownloadFile(fileId) == Http("GET", <<"/api/files/download/", fileId>>, <<>>, <<>>)

\* lines 180-182
handleDownload(fileId) ==
    /\ mounted
    /\ fileId \in DisplayedIds
    /\ InFlightCount < MaxInFlight
    /\ inflight' = IssueIn(inflight, Req("download", "user", FALSE))
    /\ sent' = <<DownloadFile(fileId)>>
    /\ event' = Ev("handleDownload", "")
    /\ UNCHANGED <<burst, mounted, files, stats, categories, message, isSearching, timers,
                   filterVars, formVars>>

\* downloadResponse without the fetchStats() of line 195.
downloadResponseNoStats(outcome) ==
    /\ inflight[Req("download", "user", FALSE)] > 0
    /\ inflight' = ArriveIn(inflight, Req("download", "user", FALSE))
    /\ sent' = <<>>
    /\ message' = CASE outcome = "ok" -> message
                     [] outcome = "non2xx" -> Msg("Download failed")
                     [] outcome = "network" -> Msg("Download failed: Network error")
    /\ event' = Ev("downloadResponse", outcome)
    /\ UNCHANGED <<burst, mounted, files, stats, categories, isSearching, timers,
                   filterVars, formVars>>

\* downloadResponse refreshing the file list as well after a successful download.
downloadResponseRefreshesList(outcome) ==
    /\ inflight[Req("download", "user", FALSE)] > 0
    /\ CASE outcome = "ok" ->
              /\ inflight' = IssueIn(IssueIn(ArriveIn(inflight, Req("download", "user", FALSE)),
                                             Req("stats", "download", FALSE)),
                                     Req("files", "mount", FALSE))
              /\ sent' = <<GetStats, GetFiles>>
              /\ message' = message
         [] outcome = "non2xx" ->
              /\ inflight' = ArriveIn(inflight, Req("download", "user", FALSE))
              /\ sent' = <<>>
              /\ message' = Msg("Download failed")
         [] outcome = "network" ->
              /\ inflight' = ArriveIn(inflight, Req("download", "user", FALSE))
              /\ sent' = <<>>
              /\ message' = Msg("Download failed: Network error")
    /\ event' = Ev("downloadResponse", outcome)
    /\ UNCHANGED <<burst, mounted, files, stats, categories, isSearching, timers,
                   filterVars, formVars>>

\* lines 183-202: after the await
downloadResponse(outcome) ==
    /\ inflight[Req("download", "user", FALSE)] > 0
    /\ CASE outcome = "ok" ->
              /\ inflight' = IssueIn(ArriveIn(inflight, Req("download", "user", FALSE)),
                                     Req("stats", "download", FALSE))
              /\ sent' = <<GetStats>>
              /\ message' = message
         [] outcome = "non2xx" ->
              /\ inflight' = ArriveIn(inflight, Req("download", "user", FALSE))
              /\ sent' = <<>>
              /\ message' = Msg("Download failed")
         [] outcome = "network" ->
              /\ inflight' = ArriveIn(inflight, Req("download", "user", FALSE))
              /\ sent' = <<>>
              /\ message' = Msg("Download failed: Network error")
    /\ event' = Ev("downloadResponse", outcome)
    /\ UNCHANGED <<burst, mounted, files, stats, categories, isSearching, timers,
                   filterVars, formVars>>

(***************************************************************************)
(* The catalog: mount, the filter controls, the debounce timer and the     *)
(* responses of the four GET helpers.                                      *)
(***************************************************************************)
FilterInput ==
    \/ \E v \in SearchTerms : setSearchTerm(v)
    \/ \E v \in CategoryChoices : setSelectedCategory(v)
    \/ \E v \in FileTypeOptions : setSelectedFileType(v)
    \/ \E o \in SortOptions : setSort(o[1], o[2])
    \/ clearFilters

TimerExpiry == \E t \in timers : DebounceTimerFires(t)

\* The bodies a response with the given outcome can carry: only a 2xx body is read.
Bodies(o, payloads) == IF o = "ok" THEN payloads ELSE {<<>>}

CategoriesResponse ==
    \E o \in Outcomes : \E d \in Bodies(o, CategoryPayloads) : fetchCategoriesResponse(o, d)

FilesResponse ==
    \E r \in Requests, o \in Outcomes :
        \E d \in Bodies(o, FileListPayloads) : fetchFilesResponse(r, o, d)

SearchResponse ==
    \E r \in Requests, o \in Outcomes :
        \E d \in Bodies(o, FileListPayloads) : searchFilesResponse(r, o, d)

StatsResponse ==
    \E r \in Requests, o \in Outcomes :
        \E d \in Bodies(o, StatsPayloads) : fetchStatsResponse(r, o, d)

NextCatalog ==
    \/ Mount \/ FilterInput \/ TimerExpiry
    \/ CategoriesResponse \/ FilesResponse \/ SearchResponse \/ StatsResponse

SpecCatalog == Init /\ [][NextCatalog]_vars

(***************************************************************************)
(* Uploading and deleting through the page: mount, the two file dialogs,   *)
(* the Upload button, the Delete buttons, the first debounce timer and     *)
(* every response.                                                         *)
(***************************************************************************)
FileInput ==
    \/ \E f \in FileSelections : handleFileSelect(f)
    \/ \E imgs \in ImageSelections : handleImageSelect(imgs)

TextInput ==
    \/ \E v \in Descriptions : setDescription(v)
    \/ \E i \in 1..Len(categories) : setCategory(categories[i])

UploadResponse == \E o \in Outcomes, d \in UploadDetails : uploadResponse(o, d)

Delete == \E id \in DisplayedIds, confirmed \in BOOLEAN : handleDelete(id, confirmed)

DeleteResponse == \E o \in Outcomes, res \in DeleteResults : deleteResponse(o, res)

NextUpload ==
    \/ Mount \/ FileInput \/ clickUpload \/ UploadResponse
    \/ Delete \/ DeleteResponse \/ TimerExpiry
    \/ CategoriesResponse \/ FilesResponse \/ StatsResponse

SpecUpload == Init /\ [][NextUpload]_vars

(***************************************************************************)
(* The upload form with handleUpload called directly, without the disabled *)
(* attribute of the Upload button in front of it.                          *)
(***************************************************************************)
NextHandlers ==
    \/ Mount \/ FileInput \/ TextInput \/ handleUpload \/ UploadResponse
    \/ TimerExpiry \/ CategoriesResponse \/ FilesResponse \/ StatsResponse

SpecHandlers == Init /\ [][NextHandlers]_vars

(***************************************************************************)
(* Fetching: mount, the search box, the debounce timer, the Download       *)
(* buttons and every response; the list is fetched by the full-list fetch  *)
(* and by searches, the stats at mount and after each download.            *)
(***************************************************************************)
Download == \E id \in DisplayedIds : handleDownload(id)

DownloadResponse == \E o \in Outcomes : downloadResponse(o)

NextFetch ==
    \/ Mount \/ (\E v \in SearchTerms : setSearchTerm(v)) \/ TimerExpiry
    \/ Download \/ DownloadResponse
    \/ CategoriesResponse \/ FilesResponse \/ SearchResponse \/ StatsResponse

SpecFetch == Init /\ [][NextFetch]_vars

(***************************************************************************)
(* The operations that change the catalog on the backend, through the      *)
(* page: upload, delete and download, with the first debounce timer and    *)
(* the responses of their refreshes.                                       *)
(***************************************************************************)
NextMutations ==
    \/ Mount \/ (\E f \in FileSelections : handleFileSelect(f)) \/ TimerExpiry
    \/ clickUpload \/ UploadResponse \/ Delete \/ DeleteResponse
    \/ Download \/ DownloadResponse
    \/ CategoriesResponse \/ FilesResponse \/ StatsResponse

SpecMutations == Init /\ [][NextMutations]_vars

\* The list refresh that handleDelete awaits at line 226 comes to its end.
DeleteRefreshEnds ==
    \E o \in Outcomes : \E d \in Bodies(o, FileListPayloads) :
        fetchFilesResponse(Req("files", "delete", FALSE), o, d)

\* Every fetch settles: the promise of a request that is in flight is fulfilled or
\* rejected in the end, so the code after its await runs.
SpecMutationsFair ==
    SpecMutations /\ WF_vars(UploadResponse) /\ WF_vars(DeleteRefreshEnds)

(***************************************************************************)
(* Every kind of request through the page: a file is chosen, a search text *)
(* is typed, and upload, delete and download are clicked.                  *)
(***************************************************************************)
NextPage ==
    \/ Mount \/ handleFileSelect(SetupExe)
    \/ setSearchTerm(OddTerm) \/ TimerExpiry
    \/ clickUpload \/ UploadResponse \/ Delete \/ DeleteResponse
    \/ Download \/ DownloadResponse
    \/ CategoriesResponse \/ FilesResponse \/ SearchResponse \/ StatsResponse

SpecPage == Init /\ [][NextPage]_vars

(***************************************************************************)
(* The list refresh of an upload next to the searches of the search box.   *)
(***************************************************************************)
NextRace ==
    \/ Mount \/ handleFileSelect(SetupExe)
    \/ (\E v \in SearchTerms : setSearchTerm(v)) \/ TimerExpiry
    \/ clickUpload \/ UploadResponse
    \/ CategoriesResponse \/ FilesResponse \/ SearchResponse \/ StatsResponse

SpecRace == Init /\ [][NextRace]_vars

(***************************************************************************)
(* Start-up: the page is opened and left alone.                            *)
(***************************************************************************)
NextStartup ==
    \/ Mount \/ TimerExpiry
    \/ CategoriesResponse \/ FilesResponse \/ StatsResponse

SpecStartup == Init /\ [][NextStartup]_vars

\* React runs the effects of the first render, the timer expires, and every fetch settles.
SpecStartupFair ==
    /\ SpecStartup
    /\ WF_vars(Mount) /\ WF_vars(TimerExpiry)
    /\ WF_vars(CategoriesResponse) /\ WF_vars(FilesResponse) /\ WF_vars(StatsResponse)

Next ==
    \/ NextCatalog \/ NextUpload \/ NextHandlers \/ NextFetch
    \/ NextMutations \/ NextPage \/ NextRace \/ NextStartup

Spec == Init /\ [][Next]_vars

(***************************************************************************)
(* Reading a query string back: split at '&', split each part at its first *)
(* '=', and undo the form encoding.                                        *)
(***************************************************************************)
RECURSIVE UrlDecode(_)
UrlDecode(s) ==
    IF s = <<>> THEN <<>>
    ELSE IF Head(s) = "+" THEN <<" ">> \o UrlDecode(Tail(s))
    ELSE IF Head(s) = "%" /\ Len(s) >= 3
         THEN LET code == SubSeq(s, 1, 3)
                  hit == {c \in DOMAIN PercentCode : PercentCode[c] = code}
              IN  (IF hit = {} THEN code ELSE <<CHOOSE c \in hit : TRUE>>)
                  \o UrlDecode(SubSeq(s, 4, Len(s)))
    ELSE <<Head(s)>> \o UrlDecode(Tail(s))

\* The parts of s between the occurrences of sep.
RECURSIVE SplitAt(_, _)
SplitAt(s, sep) ==
    LET hits == {i \in 1..Len(s) : s[i] = sep} IN
    IF hits = {} THEN <<s>>
    ELSE LET i == CHOOSE k \in hits : \A j \in hits : k <= j
         IN  <<SubSeq(s, 1, i - 1)>> \o SplitAt(SubSeq(s, i + 1, Len(s)), sep)

ParsePair(part) ==
    LET hits == {i \in 1..Len(part) : part[i] = "="} IN
    IF hits = {} THEN <<UrlDecode(part), <<>>>>
    ELSE LET i == CHOOSE k \in hits : \A j \in hits : k <= j
         IN  <<UrlDecode(SubSeq(part, 1, i - 1)), UrlDecode(SubSeq(part, i + 1, Len(part)))>>

ParseQuery(q) ==
    IF q = <<>> THEN <<>>
    ELSE LET parts == SplitAt(q, "&") IN [i \in 1..Len(parts) |-> ParsePair(parts[i])]

(***************************************************************************)
(* Properties.                                                             *)
(***************************************************************************)
FiltersAtDefault ==
    searchTerm = Empty /\ selectedCategory = All /\ selectedFileType = All

IsListResponse(e) == e.op \in {"fetchFilesResponse", "searchFilesResponse"}

\* C1: the response of a query of the debounce effect that a newer query of the effect
\* has superseded does not change the file list, whenever it arrives.
C1_StaleResponseNeverOverwrites ==
    [][(\E r \in Requests : r.stale /\ inflight'[r] < inflight[r]) => files' = files]_vars

\* C2: filter and sort changes that each come while the timer of the previous one is
\* pending lead to exactly one query: a change sends nothing and leaves one timer pending,
\* the one holding the values after the change; when that timer fires no timer is left and
\* the one request sent is the query for the values then in force.
C2_OneQueryForLastValues ==
    [][/\ Cardinality(timers') <= 1
       /\ filterVars' # filterVars =>
              /\ timers' = {CurrentClosure'}
              /\ sent' = <<>>
              /\ inflight' = inflight
       /\ event'.op = "timer" =>
              /\ filterVars' = filterVars
              /\ timers' = {}
              /\ sent' = <<IF FiltersAtDefault THEN GetFiles ELSE GetSearch(CurrentClosure)>>
      ]_vars

\* C2 witness: a timer that took up at least two changes has fired, and one search went out.
C2_Witness ==
    /\ event.op = "timer"
    /\ burst = 2
    /\ Len(sent) = 1
    /\ searchTerm # Empty
    /\ selectedFileType # All

\* C3: when the timer fires with all three filters at their defaults the request is
\* GET /api/files without a query, and otherwise it is GET /api/files/search.
C3_DefaultFiltersFetchAll ==
    event.op = "timer" =>
        /\ Len(sent) = 1
        /\ sent[1].method = "GET"
        /\ FiltersAtDefault => sent[1].path = <<"/api/files">> /\ sent[1].query = <<>>
        /\ ~FiltersAtDefault => sent[1].path = <<"/api/files/search">>

\* C3 witness: the filters are back at their defaults while an earlier search is still in
\* flight, and the timer has fired the full-list fetch.
C3_Witness ==
    /\ event.op = "timer"
    /\ FiltersAtDefault
    /\ sent = <<GetFiles>>
    /\ inflight[Req("search", "debounce", TRUE)] > 0

ParamOrder == <<P_search, P_category, P_file_type, P_sort_by, P_sort_order>>

ParamRank(name) == CHOOSE k \in 1..Len(ParamOrder) : ParamOrder[k] = name

\* C4: the query string of a search holds search iff the search text is not empty,
\* category iff the category is not All, file_type iff the file type is not All, always
\* sort_by and sort_order, each once, with the current value, in that order.
C4_QueryStringHasNonDefaultFields ==
    (event.op = "timer" /\ ~FiltersAtDefault) =>
        LET ps == ParseQuery(sent[1].query)
            Has(name) == \E i \in 1..Len(ps) : ps[i][1] = name
            Carries(name, value) == \A i \in 1..Len(ps) : ps[i][1] = name => ps[i][2] = value
        IN  /\ \A i \in 1..Len(ps) : \E k \in 1..Len(ParamOrder) : ps[i][1] = ParamOrder[k]
            /\ \A i, j \in 1..Len(ps) : i < j => ParamRank(ps[i][1]) < ParamRank(ps[j][1])
            /\ Has(P_search) <=> searchTerm # Empty
            /\ Has(P_category) <=> selectedCategory # All
            /\ Has(P_file_type) <=> selectedFileType # All
            /\ Has(P_sort_by) /\ Has(P_sort_order)
            /\ Carries(P_search, searchTerm)
            /\ Carries(P_category, selectedCategory)
            /\ Carries(P_file_type, selectedFileType)
            /\ Carries(P_sort_by, sortBy)
            /\ Carries(P_sort_order, sortOrder)

\* C4 witness: a search went out with all three filters set to texts that need encoding.
C4_Witness ==
    /\ event.op = "timer"
    /\ searchTerm = OddTerm
    /\ selectedCategory = SystemTools
    /\ selectedFileType = AppZip
    /\ sortBy = original_name
    /\ Len(sent) = 1
    /\ sent[1].path = <<"/api/files/search">>

\* C5: a successful upload sends exactly the list fetch and the stats fetch; a successful
\* delete sends exactly the list fetch and, when that fetch has ended, exactly the stats
\* fetch; a failed upload or delete sends nothing; and no other step starts a refresh on
\* behalf of an upload or a delete.
C5_OneRefreshPerSuccess ==
    [][LET FilesUp == Req("files", "upload", FALSE)
           StatsUp == Req("stats", "upload", FALSE)
           FilesDel == Req("files", "delete", FALSE)
           StatsDel == Req("stats", "delete", FALSE)
           UploadOk == event'.op = "uploadResponse" /\ event'.outcome = "ok"
           DeleteOk == event'.op = "deleteResponse" /\ event'.outcome = "ok"
           DeleteListEnded == inflight'[FilesDel] < inflight[FilesDel]
       IN
       /\ UploadOk =>
              /\ sent' = <<GetFiles, GetStats>>
              /\ inflight'[FilesUp] = inflight[FilesUp] + 1
              /\ inflight'[StatsUp] = inflight[StatsUp] + 1
       /\ DeleteOk =>
              /\ sent' = <<GetFiles>>
              /\ inflight'[FilesDel] = inflight[FilesDel] + 1
              /\ inflight'[StatsDel] = inflight[StatsDel]
       /\ DeleteListEnded =>
              /\ sent' = <<GetStats>>
              /\ inflight'[FilesDel] = inflight[FilesDel] - 1
              /\ inflight'[StatsDel] = inflight[StatsDel] + 1
       /\ (event'.op \in {"uploadResponse", "deleteResponse"} /\ event'.outcome # "ok") =>
              sent' = <<>>
       /\ ~UploadOk =>
              inflight'[FilesUp] <= inflight[FilesUp] /\ inflight'[StatsUp] <= inflight[StatsUp]
       /\ ~DeleteOk => inflight'[FilesDel] <= inflight[FilesDel]
       /\ ~DeleteListEnded => inflight'[StatsDel] <= inflight[StatsDel]
      ]_vars

\* C5 witness: an upload has just succeeded and sent its two refreshes while the stats
\* refresh of a successful delete, sent after that delete's list refresh, is in flight.
C5_Witness ==
    /\ event = Ev("uploadResponse", "ok")
    /\ sent = <<GetFiles, GetStats>>
    /\ inflight[Req("stats", "delete", FALSE)] = 1

IsUploadRequest(q) == q.method = "POST" /\ q.path = <<"/api/files/upload">>

\* C6: once a selection of more than 5 images has been turned down, the message is
\* 'Maximum 5 images allowed' and the next step, which comes before any new selection,
\* sends no upload request.
C6_TooManyImagesBlocksUpload ==
    [][event = Ev("handleImageSelect", "rejected") =>
          /\ message = Msg("Maximum 5 images allowed")
          /\ \A i \in 1..Len(sent') : ~IsUploadRequest(sent'[i])
      ]_vars

\* C7: handleUpload called with no file selected sends nothing, shows 'Please select a
\* file first', and leaves uploading, the description, the category and the selected
\* images as they were.
C7_NoFileRejectedBeforeNetwork ==
    [][(event'.op = "handleUpload" /\ selectedFile = NoFile) =>
          /\ sent' = <<>>
          /\ inflight' = inflight
          /\ message' = Msg("Please select a file first")
          /\ uploading' = uploading
          /\ uploading' = FALSE \/ inflight[Req("upload", "user", FALSE)] > 0
          /\ description' = description
          /\ category' = category
          /\ selectedImages' = selectedImages
      ]_vars

\* C7 witness: the call was turned down with a description, a category and images chosen.
C7_Witness ==
    /\ event = Ev("handleUpload", "rejected")
    /\ selectedFile = NoFile
    /\ ~uploading
    /\ description # Empty
    /\ category # Other
    /\ selectedImages # <<>>
    /\ message = Msg("Please select a file first")

\* C8: every failed list query, full-list fetch or search, non-2xx or network error,
\* leaves a message on display.
C8_FailedQueryShowsMessage ==
    (IsListResponse(event) /\ event.outcome # "ok") => message # NoMessage

\* C9: a failed full-list fetch or search leaves files as it was, and a failed stats
\* fetch leaves stats as it was.
C9_FailedFetchKeepsState ==
    [][/\ (IsListResponse(event') /\ event'.outcome # "ok") => files' = files
       /\ (event'.op = "fetchStatsResponse" /\ event'.outcome # "ok") => stats' = stats
      ]_vars

\* C9 witness: a search has failed with a file list on display and stats loaded.
C9_Witness ==
    /\ event = Ev("searchFilesResponse", "non2xx")
    /\ files # <<>>
    /\ stats # InitialStats

\* C10: a failed category fetch changes neither the category list nor the message; a
\* successful one puts a list of the backend in place of the category list.
C10_CategoryFetch ==
    [][event'.op = "fetchCategoriesResponse" =>
          IF event'.outcome = "ok"
          THEN categories' \in CategoryPayloads
          ELSE categories' = categories /\ message' = message
      ]_vars

\* C10 witness: the category fetch failed while a message was on display; the list is the
\* initial one.
C10_Witness ==
    /\ event = Ev("fetchCategoriesResponse", "network")
    /\ categories = <<Other>>
    /\ message = Msg("Error loading files")

IsDeleteRequest(q) == q.method = "DELETE"

\* C11: a DELETE request goes out only in a call of handleDelete that the user confirmed,
\* and a call the user declined sends nothing, starts no fetch and leaves files, stats
\* and message as they were.
C11_DeleteNeedsConfirmation ==
    [][/\ (\E i \in 1..Len(sent') : IsDeleteRequest(sent'[i])) =>
              event' = Ev("handleDelete", "confirmed")
       /\ event' = Ev("handleDelete", "declined") =>
              /\ sent' = <<>>
              /\ inflight' = inflight
              /\ files' = files
              /\ stats' = stats
              /\ message' = message
      ]_vars

\* C11 witness: the user declined a delete with a file on display, stats loaded and a
\* message showing.
C11_Witness ==
    /\ event = Ev("handleDelete", "declined")
    /\ files # <<>>
    /\ stats # InitialStats
    /\ message # NoMessage

\* C12: a delete response counts as a success only when it is 2xx with success true: it
\* then shows 'File deleted successfully' and starts the list refresh.  In every other
\* outcome the message becomes 'Delete failed: ' followed by the error's message (rejected
\* fetch), the backend's message, or 'Unknown error' when the backend gave none; nothing
\* is sent, no refresh is started, and files and stats stay as they were.
C12_DeleteFailure ==
    [][\A o \in Outcomes, res \in DeleteResults :
          deleteResponse(o, res) =>
              IF o = "ok" /\ res.success
              THEN /\ message' = Msg("File deleted successfully")
                   /\ sent' = <<GetFiles>>
                   /\ event'.outcome = "ok"
              ELSE /\ message' = <<"Delete failed: ",
                                   IF o = "network" THEN res.message
                                   ELSE IF res.message # "" THEN res.message
                                   ELSE "Unknown error">>
                   /\ sent' = <<>>
                   /\ files' = files
                   /\ stats' = stats
                   /\ \A r \in Requests : r.kind \in {"files", "stats"} => inflight'[r] = inflight[r]
                   /\ event'.outcome # "ok"
      ]_vars

\* C12 witness: a 2xx response with success false and no message has been handled, with a
\* file on display and stats loaded.
C12_Witness ==
    /\ event = Ev("deleteResponse", "refused")
    /\ message = <<"Delete failed: ", "Unknown error">>
    /\ files # <<>>
    /\ stats # InitialStats

\* C13: when a 2xx response to an upload has been handled, the selected file is null, the
\* selected images are empty, the description is empty, the upload category is 'Other'
\* and the message is 'File uploaded successfully!'.
C13_SuccessfulUploadClearsForm ==
    [][event' = Ev("uploadResponse", "ok") =>
          /\ selectedFile' = NoFile
          /\ selectedImages' = <<>>
          /\ description' = Empty
          /\ category' = Other
          /\ message' = Msg("File uploaded successfully!")
      ]_vars

\* C13 witness: an upload has succeeded and the form is back at its initial values.
C13_Witness ==
    /\ event = Ev("uploadResponse", "ok")
    /\ formVars = <<NoFile, <<>>, Empty, Other, FALSE>>
    /\ message = Msg("File uploaded successfully!")
    /\ sent = <<GetFiles, GetStats>>

\* C14: when a non-2xx response to an upload has been handled the message is 'Upload
\* failed: ' followed by the detail of the response, when the fetch was rejected it is
\* 'Upload failed: Network error', and in both cases the selected file, the selected
\* images, the description and the upload category are what they were before.
C14_FailedUploadKeepsForm ==
    [][(event'.op = "uploadResponse" /\ event'.outcome # "ok") =>
          /\ event'.outcome = "non2xx" =>
                 /\ Len(message') = 2
                 /\ message'[1] = "Upload failed: "
                 /\ message'[2] \in UploadDetails
          /\ event'.outcome = "network" => message' = Msg("Upload failed: Network error")
          /\ selectedFile' = selectedFile
          /\ selectedImages' = selectedImages
          /\ description' = description
          /\ category' = category
      ]_vars

\* C14 witness: an upload has been answered non-2xx with a file, images, a description
\* and a category chosen, and the Upload button is enabled again.
C14_Witness ==
    /\ event = Ev("uploadResponse", "non2xx")
    /\ selectedFile = SetupExe
    /\ selectedImages = Images(MaxImages)
    /\ description = SomeText
    /\ category = SystemTools
    /\ message = <<"Upload failed: ", "File type not allowed">>
    /\ UploadButtonEnabled

IsStatsRequest(q) == q = GetStats

\* C15: the step that handles a successful upload and the step that handles a successful
\* download each send a stats fetch; a successful delete starts the list refresh, and is
\* followed, once that refresh has ended, by a stats fetch; a failed download sends
\* nothing, starts no stats fetch and shows a 'Download failed' message.
C15_StatsRefreshedAfterMutation ==
    /\ [][/\ event' = Ev("uploadResponse", "ok") =>
                 /\ \E i \in 1..Len(sent') : IsStatsRequest(sent'[i])
                 /\ inflight'[Req("stats", "upload", FALSE)] = inflight[Req("stats", "upload", FALSE)] + 1
          /\ event' = Ev("downloadResponse", "ok") =>
                 /\ \E i \in 1..Len(sent') : IsStatsRequest(sent'[i])
                 /\ inflight'[Req("stats", "download", FALSE)] = inflight[Req("stats", "download", FALSE)] + 1
          /\ event' = Ev("deleteResponse", "ok") =>
                 inflight'[Req("files", "delete", FALSE)] > 0
          /\ (event'.op = "downloadResponse" /\ event'.outcome # "ok") =>
                 /\ sent' = <<>>
                 /\ \A r \in Requests : r.kind = "stats" => inflight'[r] = inflight[r]
                 /\ message' \in {Msg("Download failed"), Msg("Download failed: Network error")}
          ]_vars
    /\ (event = Ev("deleteResponse", "ok")) ~>
          (event.op = "fetchFilesResponse" /\ sent = <<GetStats>>)

\* C15 witness: the list refresh of a successful delete has failed, and the stats fetch
\* went out all the same.
C15_Witness ==
    /\ event = Ev("fetchFilesResponse", "network")
    /\ sent = <<GetStats>>
    /\ inflight[Req("stats", "delete", FALSE)] = 1
    /\ message = Msg("Error loading files")

\* The steps that run the code after an await, and the kind of request each one answers.
ResponseKind ==
    [fetchCategoriesResponse |-> "categories", fetchFilesResponse |-> "files",
     searchFilesResponse |-> "search", fetchStatsResponse |-> "stats",
     uploadResponse |-> "upload", deleteResponse |-> "delete",
     downloadResponse |-> "download"]

IsFailedResponse(e) == e.op \in DOMAIN ResponseKind /\ e.outcome # "ok"

\* The steps that the user or the first render starts.
UserOps == {"mount", "input", "handleImageSelect", "handleUpload", "handleDelete", "handleDownload"}

C19_LastWriterWins ==
    /\ files = <<>>
    /\ [][/\ \A r \in Requests, d \in FileListPayloads :
                 (fetchFilesResponse(r, "ok", d) \/ searchFilesResponse(r, "ok", d)) => files' = d
          /\ ~(IsListResponse(event') /\ event'.outcome = "ok") => files' = files
         ]_vars

\* C19 witness: a search has been answered while the list refresh of an upload is still
\* in flight, and its list is on display.
C19_Witness ==
    /\ event = Ev("searchFilesResponse", "ok")
    /\ inflight[Req("files", "upload", FALSE)] = 1
    /\ files = <<File1>>

\* C17: in every state at most one debounce timer is pending, and a pending timer is the
\* one set for the filter and sort values now in force: the timers of earlier values
\* have been cleared and cannot fire.
C17_AtMostOneTimer ==
    /\ Cardinality(timers) <= 1
    /\ \A t \in timers : t = CurrentClosure

\* C17 witness: one timer is pending after two changes made while a timer was pending.
C17_Witness ==
    /\ burst = 2
    /\ Cardinality(timers) = 1
    /\ searchTerm # Empty
    /\ selectedCategory # All

\* The queries of the debounce effect that are in flight.
DebounceQueriesInFlight ==
    BagSum(inflight, {r \in Requests : r.origin = "debounce"})

\* C18: in every state at most one query of the debounce effect, search or full-list
\* fetch, is in flight.
C18_NoOverlappingQueries == DebounceQueriesInFlight <= 1

\* C20: while uploading is true an upload request is in flight; the step that handles
\* its response, whatever the outcome, sets uploading to false; and so, every fetch
\* settling in the end, uploading always returns to false.
C20_UploadingReturnsToFalse ==
    /\ [](uploading => inflight[Req("upload", "user", FALSE)] > 0)
    /\ [][event'.op = "uploadResponse" => ~uploading']_vars
    /\ (uploading ~> ~uploading)

\* C20 witness: an upload has ended in a network error, uploading is false again and the
\* Upload button is enabled for the file that is still selected.
C20_Witness ==
    /\ event = Ev("uploadResponse", "network")
    /\ ~uploading
    /\ selectedFile = SetupExe
    /\ UploadButtonEnabled

\* The searches that are in flight.
SearchesInFlight == BagSum(inflight, {r \in Requests : r.kind = "search"})

\* C21: in every state isSearching is true exactly when at least one search is in flight.
C21_IsSearchingAccurate == isSearching <=> SearchesInFlight > 0

IsFullListRequest(q) == q.method = "GET" /\ q.path = <<"/api/files">> /\ q.query = <<>>

\* C22: the list request sent by the step that handles a successful upload or a
\* successful delete is GET /api/files with no query, whatever the filters are, and no
\* search goes out in that step.
C22_RefreshIsUnfiltered ==
    [][(event' \in {Ev("uploadResponse", "ok"), Ev("deleteResponse", "ok")}) =>
          /\ Len(sent') >= 1
          /\ IsFullListRequest(sent'[1])
          /\ \A i \in 1..Len(sent') : sent'[i].path # <<"/api/files/search">>
          /\ \A r \in Requests : r.kind = "search" => inflight'[r] = inflight[r]
      ]_vars

\* C22 witness: nothing is pending or in flight, a search text is set, and the list on
\* display came with a full-list fetch that ended after a successful upload.
C22_Witness ==
    /\ event = Ev("fetchFilesResponse", "ok")
    /\ message = Msg("File uploaded successfully!")
    /\ searchTerm # Empty
    /\ timers = {}
    /\ InFlightCount = 0
    /\ files = <<File1>>

\* C23: a change of the sort key or order sends nothing and leaves one pending timer, the
\* one for the new values; when the timer fires with the three filters at their defaults
\* the one request is GET /api/files with no query, so without sort_by and sort_order,
\* whatever the sort is; when it fires with a filter set the request is the search and
\* carries the sort key and order in force.
C23_SortSentOnlyWithFilter ==
    [][/\ <<sortBy', sortOrder'>> # <<sortBy, sortOrder>> =>
              /\ timers' = {CurrentClosure'}
              /\ sent' = <<>>
       /\ event'.op = "timer" =>
              /\ Len(sent') = 1
              /\ IF FiltersAtDefault'
                 THEN IsFullListRequest(sent'[1])
                 ELSE LET ps == ParseQuery(sent'[1].query) IN
                      /\ sent'[1].path = <<"/api/files/search">>
                      /\ \E i \in 1..Len(ps) : ps[i] = <<P_sort_by, sortBy'>>
                      /\ \E i \in 1..Len(ps) : ps[i] = <<P_sort_order, sortOrder'>>
      ]_vars

\* C23 witness: with the three filters at their defaults and the sort changed to names
\* ascending, the timer has fired the full-list fetch.
C23_Witness ==
    /\ event.op = "timer"
    /\ FiltersAtDefault
    /\ sortBy = original_name
    /\ sortOrder = asc
    /\ sent = <<GetFiles>>
    /\ burst >= 1

\* The number of image parts in the body of a request.
ImageCount(q) == Cardinality({k \in 1..Len(q.body) : q.body[k][1] = "images"})

\* C24: in every state selectedImages holds at most 5 images, and an upload request just
\* sent carries at most 5 image parts.
C24_AtMostFiveImages ==
    /\ Len(selectedImages) <= MaxImages
    /\ \A i \in 1..Len(sent) : IsUploadRequest(sent[i]) => ImageCount(sent[i]) <= MaxImages

\* C24 witness: an upload has gone out with exactly 5 images.
C24_Witness ==
    /\ Len(sent) = 1
    /\ IsUploadRequest(sent[1])
    /\ ImageCount(sent[1]) = MaxImages
    /\ Len(selectedImages) = MaxImages

\* C25: a selection of more than 5 images sets the message to 'Maximum 5 images allowed'
\* and changes nothing else: the accepted images, the selected file, the rest of the form
\* and the requests in flight stay as they were.  A click on Upload right after it, with
\* a file selected, sends the upload with the file and the images accepted before.
C25_RejectedSelectionChangesOnlyMessage ==
    [][/\ event' = Ev("handleImageSelect", "rejected") =>
              /\ message' = Msg("Maximum 5 images allowed")
              /\ selectedImages' = selectedImages
              /\ selectedFile' = selectedFile
              /\ sent' = <<>>
              /\ UNCHANGED <<mounted, files, categories, stats, description, category, uploading,
                             isSearching, timers, inflight, filterVars>>
       /\ (event = Ev("handleImageSelect", "rejected") /\ event'.op = "handleUpload") =>
              /\ event'.outcome = "started"
              /\ Len(sent') = 1
              /\ IsUploadRequest(sent'[1])
              /\ sent'[1].body[1] = <<"file", selectedFile>>
              /\ ImageCount(sent'[1]) = Len(selectedImages)
              /\ selectedImages' = selectedImages
      ]_vars

\* C25 witness: a selection of 6 images has been turned down while a file and 5 accepted
\* images are selected, and the Upload button is enabled.
C25_Witness ==
    /\ event = Ev("handleImageSelect", "rejected")
    /\ selectedFile = SetupExe
    /\ selectedImages = Images(MaxImages)
    /\ message = Msg("Maximum 5 images allowed")
    /\ UploadButtonEnabled

\* C26: with no user input the only steps that send anything are the mount, which happens
\* once and sends the categories, full-list and stats requests, and the expiry of the
\* timer, which sends the full-list request; the mount sets the only timer there ever is
\* and the expiry removes it; and both the mount and the expiry do happen.  So the
\* categories and the stats are requested once and the full list twice.
C26_StartupRequests ==
    /\ [][/\ sent' # <<>> =>
                 \/ /\ event'.op = "mount"
                    /\ ~mounted
                    /\ sent' = <<GetCategories, GetFiles, GetStats>>
                 \/ /\ event'.op = "timer"
                    /\ timers # {}
                    /\ timers' = {}
                    /\ sent' = <<GetFiles>>
          /\ event'.op \in {"mount", "timer"} => sent' # <<>>
          /\ mounted => mounted'
          /\ event'.op # "mount" => timers' \subseteq timers
          /\ Cardinality(timers') <= 1
         ]_vars
    /\ <>(event.op = "mount")
    /\ <>(event.op = "timer")

\* C26 witness: the first timer has fired its full-list fetch while the one sent at mount
\* is still in flight.
C26_Witness ==
    /\ event.op = "timer"
    /\ sent = <<GetFiles>>
    /\ inflight[Req("files", "mount", FALSE)] = 1
    /\ inflight[Req("files", "debounce", FALSE)] = 1
    /\ burst = 0

\* C27: the step that handles a successful delete sends the list request alone; the stats
\* request of a delete is started only by the step in which that delete's list refresh
\* ends, and every such step starts it, whether the refresh ended 2xx, non-2xx or in a
\* network error.  The step that handles a successful upload sends the list request and
\* the stats request together.
C27_DeleteRefreshesInSequence ==
    [][LET ListOfDelete == Req("files", "delete", FALSE)
           StatsOfDelete == Req("stats", "delete", FALSE)
       IN
       /\ event' = Ev("deleteResponse", "ok") =>
              /\ sent' = <<GetFiles>>
              /\ inflight'[StatsOfDelete] = inflight[StatsOfDelete]
       /\ inflight'[StatsOfDelete] > inflight[StatsOfDelete] =>
              /\ event'.op = "fetchFilesResponse"
              /\ inflight'[ListOfDelete] = inflight[ListOfDelete] - 1
       /\ inflight'[ListOfDelete] < inflight[ListOfDelete] =>
              /\ event'.op = "fetchFilesResponse"
              /\ event'.outcome \in Outcomes
              /\ sent' = <<GetStats>>
              /\ inflight'[StatsOfDelete] = inflight[StatsOfDelete] + 1
       /\ event' = Ev("uploadResponse", "ok") =>
              /\ sent' = <<GetFiles, GetStats>>
              /\ inflight'[Req("files", "upload", FALSE)] = inflight[Req("files", "upload", FALSE)] + 1
              /\ inflight'[Req("stats", "upload", FALSE)] = inflight[Req("stats", "upload", FALSE)] + 1
      ]_vars

\* C27 witness: the list refresh of a successful delete has ended non-2xx, and the stats
\* request of that delete has just gone out.
C27_Witness ==
    /\ event = Ev("fetchFilesResponse", "non2xx")
    /\ sent = <<GetStats>>
    /\ inflight[Req("stats", "delete", FALSE)] = 1
    /\ inflight[Req("files", "delete", FALSE)] = 0
    /\ message = Msg("File deleted successfully")

IsListRequest(q) == q.path \in {<<"/api/files">>, <<"/api/files/search">>}

\* C28: neither the click on Download nor the step that handles its response sends a
\* list request or starts a list fetch, and neither changes files, the filters, the
\* upload form, the categories or the stats; the message changes only when the download
\* failed.  The stats fetch that follows a successful download leaves files as it is too,
\* so the list keeps the old download count.
C28_DownloadFrame ==
    [][/\ event'.op \in {"handleDownload", "downloadResponse"} =>
              /\ \A i \in 1..Len(sent') : ~IsListRequest(sent'[i])
              /\ \A r \in Requests : r.kind \in {"files", "search"} => inflight'[r] = inflight[r]
              /\ files' = files
              /\ filterVars' = filterVars
              /\ formVars' = formVars
              /\ categories' = categories
              /\ stats' = stats
              /\ timers' = timers
              /\ (event'.op = "handleDownload" \/ event'.outcome = "ok") => message' = message
              /\ message' # message => message'[1] \in {"Download failed", "Download failed: Network error"}
       /\ event'.op = "fetchStatsResponse" => files' = files
      ]_vars

\* C28 witness: a download has succeeded, its stats fetch has gone out, and the list still
\* shows the file with the download count it had.
C28_Witness ==
    /\ event = Ev("downloadResponse", "ok")
    /\ sent = <<GetStats>>
    /\ files = <<File1>>
    /\ files[1].download_count = 0
    /\ searchTerm # Empty

\* The upload requests in flight.
UploadsInFlight == inflight[Req("upload", "user", FALSE)]

\* C29: with uploads started through the Upload button only, in every state at most one
\* upload request is in flight, and uploading is true exactly when one is.
C29_OneUploadAtATime ==
    /\ UploadsInFlight <= 1
    /\ uploading <=> UploadsInFlight = 1

\* C29 witness: an upload is in flight, uploading is true and the button is disabled
\* although a file is selected.
C29_Witness ==
    /\ UploadsInFlight = 1
    /\ uploading
    /\ selectedFile # NoFile
    /\ ~UploadButtonEnabled

====
